---------------------------- MODULE Spec2Model ----------------------------
(***************************************************************************)
(* TechQuotas Antigravity: process discovery and connection bootstrap.     *)
(*                                                                         *)
(* ProcessFinder (core/process_finder.ts) and the extension entry point    *)
(* (extension.ts) as a state machine.  Every action is one synchronous     *)
(* segment of JavaScript: the code between two awaits, or one event        *)
(* handler.  Text (command lines, tool output) is a sequence of symbols:   *)
(* one-character strings, plus the flag literals the regular expressions   *)
(* search for, each as one symbol.                                         *)
(***************************************************************************)
EXTENDS Integers, Sequences, FiniteSets, TLC

(***************************************************************************)
(* Bounds of the model.                                                    *)
(***************************************************************************)
MaxRetries == 2
MaxCalls == 2

(***************************************************************************)
(* Character classes of the regular expressions.                           *)
(***************************************************************************)
DigitChars == {"0", "1", "2", "3", "4", "5", "6", "7", "8", "9"}
HexLower == {"a", "b", "c", "d", "e", "f"}
HexUpper == {"A", "B", "C", "D", "E", "F"}
OtherLower == {"g", "h", "x", "z"}
OtherUpper == {"G", "H", "X", "Z"}
SpaceChars == {" ", "\t"}
\* the separator class without the equals sign
SepChars_space_only == SpaceChars

\* [=\s]
SepChars == {"="} \cup SpaceChars
\* \d
PortValueChars == DigitChars
\* [a-f0-9-] under the i flag
WinTokenChars == HexLower \cup HexUpper \cup DigitChars \cup {"-"}
\* [a-zA-Z0-9-]
UnixTokenChars == HexLower \cup HexUpper \cup OtherLower \cup OtherUpper
                    \cup DigitChars \cup {"-"}
\* \w, for the \b of the ownership marker
WordChars == HexLower \cup HexUpper \cup OtherLower \cup OtherUpper
                    \cup DigitChars \cup {"_", "antigravity", "ANTIGRAVITY"}

\* the literals, one symbol each
PortFlag == "--extension_server_port"
TokenFlag == "--csrf_token"
TokenFlagUpper == "--CSRF_TOKEN"
AppDataDirFlag == "--app_data_dir"
AppDataDirFlagUpper == "--APP_DATA_DIR"

\* parseInt of a non-numeric string
NaN == 0 - 1

DigitVal(ch) ==
    CASE ch = "0" -> 0 [] ch = "1" -> 1 [] ch = "2" -> 2 [] ch = "3" -> 3
      [] ch = "4" -> 4 [] ch = "5" -> 5 [] ch = "6" -> 6 [] ch = "7" -> 7
      [] ch = "8" -> 8 [] ch = "9" -> 9

\* the length of the longest run of symbols of S in s that starts at i
RECURSIVE RunLen(_, _, _)
RunLen(s, i, S) ==
    IF i > Len(s) \/ s[i] \notin S THEN 0 ELSE 1 + RunLen(s, i + 1, S)

\* the value of a sequence of decimal digits
RECURSIVE DigitsValue(_)
DigitsValue(ds) ==
    IF ds = <<>> THEN 0
    ELSE 10 * DigitsValue(SubSeq(ds, 1, Len(ds) - 1)) + DigitVal(ds[Len(ds)])

\* parseInt(s, 10): the leading digits of s, NaN when there are none
parseInt(s) ==
    LET n == RunLen(s, 1, DigitChars)
    IN  IF n = 0 THEN NaN ELSE DigitsValue(SubSeq(s, 1, n))

\* String.prototype.trim
RECURSIVE TrimLeft(_)
TrimLeft(s) ==
    IF s # <<>> /\ s[1] \in SpaceChars THEN TrimLeft(Tail(s)) ELSE s

RECURSIVE TrimRight(_)
TrimRight(s) ==
    IF s # <<>> /\ s[Len(s)] \in SpaceChars
    THEN TrimRight(SubSeq(s, 1, Len(s) - 1)) ELSE s

Trim(s) == TrimRight(TrimLeft(s))

\* String.prototype.includes, for a one-symbol literal
Includes(s, lit) == \E i \in 1..Len(s) : s[i] = lit

(***************************************************************************)
(* str.match(/FLAG[=\s]+(VALUE+)/): the capture group of the leftmost      *)
(* match, <<>> when there is none.  The separator and value classes are    *)
(* disjoint, so the greedy runs are the maximal runs.                      *)
(***************************************************************************)
MatchesAt(s, i, Flags, ValueChars) ==
    /\ s[i] \in Flags
    /\ RunLen(s, i + 1, SepChars) >= 1
    /\ RunLen(s, i + 1 + RunLen(s, i + 1, SepChars), ValueChars) >= 1

FlagMatch(s, Flags, ValueChars) ==
    LET hits == {i \in 1..Len(s) : MatchesAt(s, i, Flags, ValueChars)}
    IN  IF hits = {} THEN <<>>
        ELSE LET i == CHOOSE k \in hits : \A j \in hits : k <= j
                 v == i + 1 + RunLen(s, i + 1, SepChars)
             IN  SubSeq(s, v, v + RunLen(s, v, ValueChars) - 1)

\* /--extension_server_port[=\s]+(\d+)/
portMatch(cmdLine) == FlagMatch(cmdLine, {PortFlag}, PortValueChars)
\* /--csrf_token[=\s]+([a-f0-9-]+)/i
tokenMatch_windows(cmdLine) ==
    FlagMatch(cmdLine, {TokenFlag, TokenFlagUpper}, WinTokenChars)
\* /--csrf_token[=\s]+([a-zA-Z0-9-]+)/
tokenMatch_unix(cmdLine) == FlagMatch(cmdLine, {TokenFlag}, UnixTokenChars)

(***************************************************************************)
(* parsed_process_info, and null.                                          *)
(***************************************************************************)
NullInfo == [found |-> FALSE, pid |-> 0, extension_port |-> 0, csrf_token |-> <<>>]

ParsedInfo(pid, port, token) ==
    [found |-> TRUE, pid |-> pid, extension_port |-> port, csrf_token |-> token]

\* the filter for Antigravity processes of get_process_info_windows
is_antigravity(cmd) ==
    \/ \E i \in 1..Len(cmd) :
          /\ cmd[i] \in {AppDataDirFlag, AppDataDirFlagUpper}
          /\ RunLen(cmd, i + 1, SpaceChars) >= 1
          /\ LET j == i + 1 + RunLen(cmd, i + 1, SpaceChars)
             IN  /\ j <= Len(cmd)
                 /\ cmd[j] \in {"antigravity", "ANTIGRAVITY"}
                 /\ (j = Len(cmd) \/ cmd[j + 1] \notin WordChars)
    \/ \E i \in 1..Len(cmd) - 2 :
          /\ cmd[i] = "\\" /\ cmd[i + 2] = "\\"
          /\ cmd[i + 1] \in {"antigravity", "ANTIGRAVITY"}
    \/ \E i \in 1..Len(cmd) - 2 :
          /\ cmd[i] = "/" /\ cmd[i + 2] = "/"
          /\ cmd[i + 1] \in {"antigravity", "ANTIGRAVITY"}


(***************************************************************************)
(* spawn_async: the promise resolves when the child closes with code 0 or  *)
(* with some output, and rejects on any other close and on a spawn error.  *)
(* exit is "error" (the child's 'error' event), "exit0" or "exit1".        *)
(***************************************************************************)
spawn_async(exit, stdout_nonempty) ==
    IF exit = "error" THEN "reject"
    ELSE IF exit = "exit0" \/ stdout_nonempty THEN "resolve"
    ELSE "reject"

(***************************************************************************)
(* get_process_info_windows.  out is what PowerShell did: its exit and the *)
(* kind of its stdout: "empty", "blank" (white space only), "badjson",     *)
(* "null" (the JSON null), "object" (one JSON object, obj) or "array" (a   *)
(* JSON array of objects, arr).                                            *)
(***************************************************************************)
NoItem == [ProcessId |-> 0, CommandLine |-> <<>>]

\* the parsed output taken as a list without the Array.isArray test
normalize_data_no_wrap(out) == out.arr

\* JSON.parse(stdout.trim()), then: if (!Array.isArray(data)) data = [data]
normalize_data(out) == IF out.kind = "array" THEN out.arr ELSE <<out.obj>>

first_antigravity(data) ==
    LET keep(item) == is_antigravity(item.CommandLine)
    IN  SelectSeq(data, keep)

parse_windows(proc) ==
    LET commandLine == proc.CommandLine
        pm == portMatch(commandLine)
        tm == tokenMatch_windows(commandLine)
    IN  IF tm = <<>> THEN NullInfo
        ELSE ParsedInfo(proc.ProcessId,
                        IF pm # <<>> THEN parseInt(pm) ELSE 0,
                        tm)

get_process_info_windows(out) ==
    IF spawn_async(out.exit, out.kind # "empty") = "reject" THEN NullInfo
    ELSE IF out.kind \in {"empty", "blank"} THEN NullInfo
    ELSE IF out.kind \in {"badjson", "null"} THEN NullInfo
    ELSE LET antigravity_processes == first_antigravity(normalize_data(out))
         IN  IF Len(antigravity_processes) = 0 THEN NullInfo
             ELSE parse_windows(antigravity_processes[1])

(***************************************************************************)
(* get_process_info_unix.  out is what pgrep did: its exit and the lines   *)
(* of its stdout.                                                          *)
(***************************************************************************)
\* the length of the longest run of symbols outside S in s that starts at i
RECURSIVE RunLenNot(_, _, _)
RunLenNot(s, i, S) ==
    IF i > Len(s) \/ s[i] \in S THEN 0 ELSE 1 + RunLenNot(s, i + 1, S)

\* line.trim().split(/\s+/)[0]
FirstPart(line) ==
    LET t == Trim(line)
    IN  SubSeq(t, 1, RunLenNot(t, 1, SpaceChars))

\* line.substring(parts[0].length).trim()
RestOfLine(line) ==
    Trim(SubSeq(line, Len(FirstPart(line)) + 1, Len(line)))

parse_unix(line) ==
    LET pid == parseInt(FirstPart(line))
        cmdLine == RestOfLine(line)
        pm == portMatch(cmdLine)
        tm == tokenMatch_unix(cmdLine)
    IN  ParsedInfo(pid,
                   IF pm # <<>> THEN parseInt(pm) ELSE 0,
                   IF tm # <<>> THEN tm ELSE <<>>)

\* for (const line of lines) if (line.includes('--extension_server_port'))
flagged_lines(lines) ==
    LET has_flag(line) == Includes(line, PortFlag)
    IN  SelectSeq(lines, has_flag)

get_process_info_unix(out) ==
    IF spawn_async(out.exit, out.lines # <<>>) = "reject" THEN NullInfo
    ELSE LET hits == flagged_lines(out.lines)
         IN  IF hits = <<>> THEN NullInfo ELSE parse_unix(hits[1])

\* process.platform === 'win32'
get_process_info(platform, out) ==
    IF platform = "win32" THEN get_process_info_windows(out)
    ELSE get_process_info_unix(out)

\* whether the two regular expressions ran on a command line
parser_ran(platform, out) ==
    IF platform = "win32"
    THEN /\ spawn_async(out.exit, out.kind # "empty") = "resolve"
         /\ out.kind \in {"object", "array"}
         /\ Len(first_antigravity(normalize_data(out))) > 0
    ELSE /\ spawn_async(out.exit, out.lines # <<>>) = "resolve"
         /\ flagged_lines(out.lines) # <<>>

(***************************************************************************)
(* The port enumerator.                                                    *)
(***************************************************************************)
\* Array.prototype.sort((a, b) => a - b), by insertion
RECURSIVE Insert(_, _)
Insert(s, x) ==
    IF s = <<>> THEN <<x>>
    ELSE IF x < Head(s) THEN <<x>> \o s
    ELSE <<Head(s)>> \o Insert(Tail(s), x)

RECURSIVE SortAscending(_)
SortAscending(s) ==
    IF s = <<>> THEN <<>>
    ELSE Insert(SortAscending(SubSeq(s, 1, Len(s) - 1)), s[Len(s)])

SeqContains(s, x) == \E i \in 1..Len(s) : s[i] = x

\* the lines in LISTEN state, whatever their pid column
RECURSIVE lsof_ports_any_pid(_, _, _)
lsof_ports_any_pid(lines, pid, ports) ==
    IF lines = <<>> THEN ports
    ELSE LET l == Head(lines)
             hit == l.proto \in {"TCP", "UDP"} /\ l.state = "LISTEN"
         IN  lsof_ports_any_pid(Tail(lines), pid,
                                IF hit /\ ~SeqContains(ports, l.port)
                                THEN Append(ports, l.port) ELSE ports)

\* the lines the lsof regular expression matches for pid: the pid column is
\* pid, the protocol TCP or UDP, the state (LISTEN)
RECURSIVE lsof_ports(_, _, _)
lsof_ports(lines, pid, ports) ==
    IF lines = <<>> THEN ports
    ELSE LET l == Head(lines)
             hit == l.pid = pid /\ l.proto \in {"TCP", "UDP"} /\ l.state = "LISTEN"
         IN  lsof_ports(Tail(lines), pid,
                        IF hit /\ ~SeqContains(ports, l.port)
                        THEN Append(ports, l.port) ELSE ports)

get_listening_ports_unix(pid, out) ==
    LET ports == IF spawn_async(out.exit, out.lines # <<>>) = "reject" THEN <<>>
                 ELSE lsof_ports(out.lines, pid, <<>>)
    IN  SortAscending(ports)

\* data.filter(p => typeof p === 'number')
numbers_of(arr) ==
    LET is_number(v) == v.isnum
        nums == SelectSeq(arr, is_number)
    IN  [i \in 1..Len(nums) |-> nums[i].n]

get_listening_ports_windows(pid, out) ==
    IF spawn_async(out.exit, out.kind # "empty") = "reject" THEN <<>>
    ELSE IF out.kind \in {"empty", "blank"} THEN <<>>
    ELSE IF out.kind = "badjson" THEN <<>>
    ELSE IF out.kind = "array" THEN SortAscending(numbers_of(out.arr))
    ELSE IF out.kind = "number" THEN <<out.num>>
    ELSE <<>>

get_listening_ports(platform, pid, out) ==
    IF platform = "win32" THEN get_listening_ports_windows(pid, out)
    ELSE get_listening_ports_unix(pid, out)

(***************************************************************************)
(* The endpoint validator's decision when the response ends.               *)
(***************************************************************************)
\* whether JSON.parse(body) returns
JSON_parse_ok(body) == body \in {"{}", "{\"models\":[]}", "null", "[1]"}

\* the decision by the status alone
test_port_end_status_only(statusCode, body) == statusCode = 200

\* res.on('end'): the value the promise is resolved with
test_port_end(statusCode, body) ==
    IF statusCode = 200 THEN JSON_parse_ok(body) ELSE FALSE

(***************************************************************************)
(* What the environment can hand to the program: command lines, process    *)
(* listings, port listings.                                                *)
(***************************************************************************)
Platforms == {"win32", "darwin", "linux"}

D51111 == <<"5", "1", "1", "1", "1">>
D51200 == <<"5", "1", "2", "0", "0">>
TokA == <<"a", "b", "c", "d", "1", "2", "3", "4", "-", "e", "f", "0", "0">>
TokB == <<"9", "F">>
Exe == <<"/", "antigravity", "/", "language_server">>
ForeignExe == <<"/", "codeium", "/", "language_server">>

\* --flag=value and --flag value
CmdEq(exe, port, token) ==
    exe \o <<" ", PortFlag, "=">> \o port \o <<" ", TokenFlag, "=">> \o token
CmdSpace(exe, port, token) ==
    exe \o <<" ", PortFlag, " ">> \o port \o <<" ", TokenFlag, " ">> \o token
CmdNoToken(exe, port) == exe \o <<" ", PortFlag, "=">> \o port
CmdNoPort(exe, token) == exe \o <<" ", TokenFlag, "=">> \o token

CmdLines ==
    { CmdEq(Exe, D51111, TokA), CmdSpace(Exe, D51200, TokB),
      CmdNoToken(Exe, D51111), CmdNoPort(Exe, TokB),
      CmdEq(ForeignExe, D51200, TokB) }

\* two processes: the pid of the first listed one and of the second
PidText1 == <<"4", "2">>
PidText2 == <<"7">>
Pids == {parseInt(PidText1), parseInt(PidText2)}

\* the lines of pgrep -af / pgrep -fl: the pid, then the command line
UnixLines(pid) == {pid \o <<" ">> \o cmd : cmd \in CmdLines}

\* the objects of Select-Object ProcessId,CommandLine
WinItems(pid) == [ProcessId : {parseInt(pid)}, CommandLine : CmdLines]

ProcOut(exit, kind, lines, obj, arr) ==
    [exit |-> exit, kind |-> kind, lines |-> lines, obj |-> obj, arr |-> arr]

NoProcOut == ProcOut("none", "none", <<>>, NoItem, <<>>)

\* the process listings with at most two entries
UnixProcOuts ==
    {ProcOut("error", "text", <<>>, NoItem, <<>>),
     ProcOut("exit1", "text", <<>>, NoItem, <<>>),
     ProcOut("exit0", "text", <<>>, NoItem, <<>>)}
    \cup {ProcOut("exit0", "text", <<l>>, NoItem, <<>>) : l \in UnixLines(PidText1)}
    \cup {ProcOut("exit0", "text", <<l1, l2>>, NoItem, <<>>) :
            l1 \in UnixLines(PidText1), l2 \in UnixLines(PidText2)}

WinProcOuts ==
    {ProcOut("error", "empty", <<>>, NoItem, <<>>),
     ProcOut("exit1", "empty", <<>>, NoItem, <<>>),
     ProcOut("exit0", "empty", <<>>, NoItem, <<>>),
     ProcOut("exit0", "blank", <<>>, NoItem, <<>>),
     ProcOut("exit0", "badjson", <<>>, NoItem, <<>>),
     ProcOut("exit1", "badjson", <<>>, NoItem, <<>>),
     ProcOut("exit0", "null", <<>>, NoItem, <<>>)}
    \cup {ProcOut("exit0", "object", <<>>, it, <<>>) : it \in WinItems(PidText1)}
    \cup {ProcOut("exit0", "array", <<>>, NoItem, <<it>>) : it \in WinItems(PidText1)}
    \cup {ProcOut("exit0", "array", <<>>, NoItem, <<i1, i2>>) :
            i1 \in WinItems(PidText1), i2 \in WinItems(PidText2)}

ProcOuts(platform) == IF platform = "win32" THEN WinProcOuts ELSE UnixProcOuts

\* the ports a listing can report
PortValues == {42100, 51111, 51200}

\* the sequences over S of length at most n
RECURSIVE SeqsUpTo(_, _)
SeqsUpTo(S, n) ==
    IF n = 0 THEN {<<>>}
    ELSE LET shorter == SeqsUpTo(S, n - 1)
         IN  shorter \cup {Append(q, x) : q \in shorter, x \in S}

MaxLines == 3

\* the lines of lsof -nP -a -iTCP -sTCP:LISTEN -p pid, by what the regular
\* expression reads of them
LsofLines ==
    [pid : Pids, proto : {"TCP"}, port : {51111, 51200}, state : {"LISTEN"}]
    \cup {[pid |-> 42, proto |-> "TCP", port |-> 42100, state |-> "ESTABLISHED"],
          [pid |-> 42, proto |-> "TCP", port |-> 42100, state |-> "LISTEN"]}

PortOut(exit, kind, lines, num, arr) ==
    [exit |-> exit, kind |-> kind, lines |-> lines, num |-> num, arr |-> arr]

UnixPortOuts ==
    {PortOut("error", "text", <<>>, 0, <<>>),
     PortOut("exit1", "text", <<>>, 0, <<>>)}
    \cup {PortOut("exit0", "text", ls, 0, <<>>) : ls \in SeqsUpTo(LsofLines, MaxLines)}

\* the elements of a JSON array: numbers, and anything else
JsonElems ==
    {[isnum |-> TRUE, n |-> p] : p \in PortValues} \cup {[isnum |-> FALSE, n |-> 0]}

WinPortOuts ==
    {PortOut("error", "empty", <<>>, 0, <<>>),
     PortOut("exit1", "empty", <<>>, 0, <<>>),
     PortOut("exit0", "empty", <<>>, 0, <<>>),
     PortOut("exit0", "blank", <<>>, 0, <<>>),
     PortOut("exit0", "badjson", <<>>, 0, <<>>),
     PortOut("exit0", "other", <<>>, 0, <<>>)}
    \cup {PortOut("exit0", "number", <<>>, p, <<>>) : p \in PortValues}
    \cup {PortOut("exit0", "array", <<>>, 0, a) : a \in SeqsUpTo(JsonElems, MaxLines)}

PortOuts(platform) == IF platform = "win32" THEN WinPortOuts ELSE UnixPortOuts

\* the status codes and the bodies a probed port can answer with
StatusCodes == {200, 404}
Bodies == {"{}", "not json{", ""}

(***************************************************************************)
(* The state.                                                              *)
(*   platform        process.platform                                      *)
(*   calls           the invocations of initialize_extension /             *)
(*                   detect_process_info, each with its position and its   *)
(*                   locals                                                *)
(*   ncalls          how many invocations were made                        *)
(*   is_initialized  the flag of extension.ts                              *)
(*   config_enabled  the techquotas.enabled setting                        *)
(*   qm              the quota manager: the port and token it was last     *)
(*                   initialised with, by which invocation, and whether it *)
(*                   polls                                                 *)
(*   status_item     the status bar item of a model group: the remaining   *)
(*                   percentage it shows and its colour                    *)
(*   port_listing    what the port listing tool last printed               *)
(*   mcp_file        the MCP configuration file mcp_config.json            *)
(*   mcp_last        the last operation of the MCP manager, the file it    *)
(*                   found and the value it returned                       *)
(***************************************************************************)
VARIABLES platform, calls, ncalls, is_initialized, config_enabled, qm, status_item,
          port_listing, mcp_file, mcp_last

vars == <<platform, calls, ncalls, is_initialized, config_enabled, qm, status_item,
          port_listing, mcp_file, mcp_last>>

\* the status bar item before the first quota update
NoStatusItem ==
    [shown |-> FALSE, pct |-> 0, is_exhausted |-> FALSE, color |-> "",
     split_color |-> "", status |-> "", split_status |-> ""]
ext_vars == <<is_initialized, config_enabled, qm>>

\* no port listing was made
NoListing == [exit |-> "none", kind |-> "none", lines |-> <<>>, num |-> 0, arr |-> <<>>]

\* mcp_config.json does not exist
NoFile == [state |-> "missing", mcpServers |-> <<>>]
\* no operation of the MCP manager was called
NoOperation ==
    [op |-> "none", server_id |-> <<>>, enabled |-> FALSE, returned |-> FALSE,
     before |-> NoFile, prev_op |-> "none", prev_id |-> <<>>,
     prev_enabled |-> FALSE, prev_before |-> NoFile, n |-> 0]

CallIds == 1..MaxCalls

NoResult == [kind |-> "none", extension_port |-> 0, connect_port |-> 0, csrf_token |-> <<>>]
\* return null
NullResult == [kind |-> "null", extension_port |-> 0, connect_port |-> 0, csrf_token |-> <<>>]
\* the result with the command line's port as connect_port
FoundResult_extension_port(info, valid_port) ==
    [kind |-> "found", extension_port |-> info.extension_port,
     connect_port |-> info.extension_port, csrf_token |-> info.csrf_token]

\* return { extension_port, connect_port, csrf_token }
FoundResult(info, valid_port) ==
    [kind |-> "found", extension_port |-> info.extension_port,
     connect_port |-> valid_port, csrf_token |-> info.csrf_token]

NoProbe == [phase |-> "none", statusCode |-> 0]
NoLastProbe == [via |-> "none", statusCode |-> 0, body |-> "", ok |-> FALSE]
NoneRan == [enumerator |-> FALSE, parser |-> FALSE, port_query |-> FALSE, probe |-> FALSE]

(***************************************************************************)
(* One invocation.  pc is where it waits: "idle" (not made yet),           *)
(* "get_process_info", "get_listening_ports", "test_port", "sleep", or     *)
(* "done".  probed, last_probe, raw_proc, attempts, had_candidates, ran    *)
(* and ports_failed record what the invocation did, info_attempt and       *)
(* ports_attempt in which attempt info and ports were assigned,            *)
(* queried_pid and probe_token the arguments of get_listening_ports and of *)
(* find_working_port.                                                      *)
(***************************************************************************)
IdleCall ==
    [pc |-> "idle", trigger |-> "none", cfg_enabled |-> FALSE, skipped |-> FALSE,
     prior |-> 0,
     max_retries |-> 0, i |-> 0, info |-> NullInfo, ports |-> <<>>, idx |-> 0,
     probe |-> NoProbe, result |-> NoResult, raw_proc |-> NoProcOut,
     probed |-> <<>>, last_probe |-> NoLastProbe, attempts |-> 0,
     had_candidates |-> FALSE, ran |-> NoneRan, ports_failed |-> FALSE,
     info_attempt |-> 0, ports_attempt |-> 0,
     queried_pid |-> 0, probe_token |-> <<>>]

(***************************************************************************)
(* detect_process_info: the retry loop.                                    *)
(***************************************************************************)
\* the loop with an inclusive bound
loop_continues_inclusive(i, max_retries) == i <= max_retries

\* for (...; i < max_retries; ...)
loop_continues(i, max_retries) == i < max_retries

\* the delay after every attempt, the last one too
loop_sleeps_always(i, max_retries) == i < max_retries

\* if (i < max_retries - 1) await new Promise(r => setTimeout(r, 100))
loop_sleeps(i, max_retries) == i < max_retries - 1

\* after the loop: throw instead of return null
return_throws(r) ==
    [r EXCEPT !.pc = "done",
              !.result = [kind |-> "rejected", extension_port |-> 0,
                          connect_port |-> 0, csrf_token |-> <<>>]]

\* after the loop: return null
return_null(r) == [r EXCEPT !.pc = "done", !.result = NullResult]

\* the loop body with the process of an earlier attempt kept: the process
\* query is skipped when one is known
begin_attempt_cached(r) ==
    IF r.info.found
    THEN [r EXCEPT !.pc = "get_listening_ports", !.attempts = @ + 1,
                   !.ports = <<>>, !.idx = 0, !.probe = NoProbe,
                   !.probed = <<>>, !.last_probe = NoLastProbe,
                   !.ports_failed = FALSE, !.ports_attempt = 0,
                   !.probe_token = <<>>]
    ELSE [r EXCEPT !.pc = "get_process_info", !.attempts = @ + 1,
                   !.info = NullInfo, !.ports = <<>>, !.idx = 0, !.probe = NoProbe,
                   !.raw_proc = NoProcOut, !.probed = <<>>,
                   !.last_probe = NoLastProbe,
                   !.ran.enumerator = TRUE, !.ports_failed = FALSE,
                   !.info_attempt = 0, !.ports_attempt = 0,
              !.queried_pid = 0, !.probe_token = <<>>]

\* the loop body up to await this.get_process_info(): the query is spawned;
\* info, ports and valid_port are declared in the body, so each iteration
\* starts without them
begin_attempt(r) ==
    [r EXCEPT !.pc = "get_process_info", !.attempts = @ + 1,
              !.info = NullInfo, !.ports = <<>>, !.idx = 0, !.probe = NoProbe,
              !.raw_proc = NoProcOut, !.probed = <<>>, !.last_probe = NoLastProbe,
              !.ran.enumerator = TRUE, !.ports_failed = FALSE,
              !.info_attempt = 0, !.ports_attempt = 0,
              !.queried_pid = 0, !.probe_token = <<>>]

\* the loop condition
next_iteration(r) ==
    IF loop_continues(r.i, r.max_retries) THEN begin_attempt(r) ELSE return_null(r)

\* the end of the loop body, after an attempt that returned nothing
end_of_attempt(r) ==
    IF loop_sleeps(r.i, r.max_retries) THEN [r EXCEPT !.pc = "sleep"]
    ELSE next_iteration([r EXCEPT !.i = @ + 1])

\* test_port up to req.end(): the request is sent
start_probe(r, idx) ==
    [r EXCEPT !.pc = "test_port", !.idx = idx,
              !.probe = [phase |-> "sent", statusCode |-> 0],
              !.ran.probe = TRUE, !.had_candidates = TRUE,
              !.probe_token = r.info.csrf_token]

\* find_working_port without the return inside the loop: every port is
\* probed and the answer of the last one decides
find_working_port_no_early_return(ports, idx, is_working) ==
    IF idx < Len(ports) THEN [returns |-> FALSE, port |-> 0, next |-> idx + 1]
    ELSE [returns |-> TRUE, port |-> IF is_working THEN ports[idx] ELSE 0, next |-> 0]

\* find_working_port after a probe resolved: return port, try the next port,
\* or return null (port 0)
find_working_port_step(ports, idx, is_working) ==
    IF is_working THEN [returns |-> TRUE, port |-> ports[idx], next |-> 0]
    ELSE IF idx < Len(ports) THEN [returns |-> FALSE, port |-> 0, next |-> idx + 1]
    ELSE [returns |-> TRUE, port |-> 0, next |-> 0]

\* the promise of test_port resolves with ok: find_working_port goes on, and
\* when it returns, detect_process_info does
probe_resolved(r, via, body, ok) ==
    LET port == r.ports[r.idx]
        r1 == [r EXCEPT !.probed = Append(@, [port |-> port, ok |-> ok]),
                        !.last_probe = [via |-> via, statusCode |-> r.probe.statusCode,
                                        body |-> body, ok |-> ok],
                        !.probe = NoProbe]
        step == find_working_port_step(r.ports, r.idx, ok)
    IN  IF ~step.returns THEN start_probe(r1, step.next)
        \* if (valid_port)
        ELSE IF step.port # 0
        THEN [r1 EXCEPT !.pc = "done", !.result = FoundResult(r.info, step.port)]
        ELSE end_of_attempt(r1)

\* the loop as do ... while: the body runs before the first test
detect_process_info_do_while(r, max_retries) ==
    begin_attempt([r EXCEPT !.max_retries = max_retries, !.i = 0])

\* detect_process_info(max_retries) is called
detect_process_info(r, max_retries) ==
    next_iteration([r EXCEPT !.max_retries = max_retries, !.i = 0])

\* a failed process query ending the call instead of the attempt
after_get_process_info_abort(r, plat, out) ==
    LET info == get_process_info(plat, out)
        r1 == [r EXCEPT !.raw_proc = out, !.info = info,
                        !.info_attempt = r.attempts,
                        !.ran.parser = @ \/ parser_ran(plat, out)]
    IN  IF info.found
        THEN [r1 EXCEPT !.pc = "get_listening_ports", !.ran.port_query = TRUE,
                        !.queried_pid = info.pid]
        ELSE IF out.exit # "exit0" THEN return_null(r1)
        ELSE end_of_attempt(r1)

\* the port query without the test if (info)
after_get_process_info_no_check(r, plat, out) ==
    LET info == get_process_info(plat, out)
        r1 == [r EXCEPT !.raw_proc = out, !.info = info,
                        !.info_attempt = r.attempts,
                        !.ran.parser = @ \/ parser_ran(plat, out)]
    IN  [r1 EXCEPT !.pc = "get_listening_ports", !.ran.port_query = TRUE,
                   !.queried_pid = info.pid]

\* await this.get_process_info() returns
after_get_process_info(r, plat, out) ==
    LET info == get_process_info(plat, out)
        r1 == [r EXCEPT !.raw_proc = out, !.info = info,
                        !.info_attempt = r.attempts,
                        !.ran.parser = @ \/ parser_ran(plat, out)]
    IN  IF info.found
        THEN [r1 EXCEPT !.pc = "get_listening_ports", !.ran.port_query = TRUE,
                        !.queried_pid = info.pid]
        ELSE end_of_attempt(r1)

\* whether the port query ended in the catch block of its step: the promise
\* of spawn_async rejected, or JSON.parse threw
port_query_failed(plat, out) ==
    \/ spawn_async(out.exit, IF plat = "win32" THEN out.kind # "empty"
                             ELSE out.lines # <<>>) = "reject"
    \/ plat = "win32" /\ out.kind = "badjson"

\* await this.get_listening_ports(info.pid) returns
after_get_listening_ports(r, plat, out) ==
    LET ports == get_listening_ports(plat, r.info.pid, out)
        r1 == [r EXCEPT !.ports = ports, !.ports_attempt = r.attempts,
                        !.ports_failed = port_query_failed(plat, out)]
    IN  IF Len(ports) > 0 THEN start_probe(r1, 1) ELSE end_of_attempt(r1)

(***************************************************************************)
(* The steps of one invocation c, as changes of calls.                     *)
(***************************************************************************)
process_query_done(c, out) ==
    /\ calls[c].pc = "get_process_info"
    /\ calls' = [calls EXCEPT ![c] = after_get_process_info(@, platform, out)]

port_query_done(c, out) ==
    /\ calls[c].pc = "get_listening_ports"
    /\ calls' = [calls EXCEPT ![c] = after_get_listening_ports(@, platform, out)]

\* https.request's callback: the response head arrived
res_callback(c, statusCode) ==
    /\ calls[c].pc = "test_port"
    /\ calls[c].probe.phase = "sent"
    /\ calls' = [calls EXCEPT ![c].probe = [phase |-> "response", statusCode |-> statusCode]]

\* res.on('end')
res_end(c, body) ==
    /\ calls[c].pc = "test_port"
    /\ calls[c].probe.phase = "response"
    /\ calls' = [calls EXCEPT ![c] =
                   probe_resolved(@, "end", body, test_port_end(@.probe.statusCode, body))]

\* req.on('error')
req_error(c) ==
    /\ calls[c].pc = "test_port"
    /\ calls[c].probe.phase \in {"sent", "response"}
    /\ calls' = [calls EXCEPT ![c] = probe_resolved(@, "error", "", FALSE)]

\* req.on('timeout'): req.destroy(); resolve(false)
req_timeout(c) ==
    /\ calls[c].pc = "test_port"
    /\ calls[c].probe.phase \in {"sent", "response"}
    /\ calls' = [calls EXCEPT ![c] = probe_resolved(@, "timeout", "", FALSE)]

\* the peer closes the connection after the response head and before the end
\* of the body: res emits 'aborted' and 'close', never 'end'; req emits no
\* 'error'; the socket is gone, so no 'timeout' follows.  No handler is
\* registered for it.
res_aborted(c) ==
    /\ calls[c].pc = "test_port"
    /\ calls[c].probe.phase = "response"
    /\ calls' = [calls EXCEPT ![c].probe.phase = "aborted"]

\* the timer of setTimeout(r, 100) fires
sleep_done(c) ==
    /\ calls[c].pc = "sleep"
    /\ calls' = [calls EXCEPT ![c] = next_iteration([@ EXCEPT !.i = @ + 1])]

(***************************************************************************)
(* SpecDetect: one call of detect_process_info(max_retries) on a fresh     *)
(* ProcessFinder, against every listing and every answer of the ports.     *)
(***************************************************************************)
QmInit == [port |-> 0, token |-> <<>>, polling |-> FALSE, inited_by |-> 0]

InitDetect ==
    /\ platform \in Platforms
    /\ calls = [c \in CallIds |-> IdleCall]
    /\ ncalls = 0
    /\ is_initialized = FALSE
    /\ config_enabled = TRUE
    /\ qm = QmInit
    /\ status_item = NoStatusItem
    /\ port_listing = NoListing
    /\ mcp_file = NoFile
    /\ mcp_last = NoOperation

DetectCall ==
    /\ calls[1].pc = "idle"
    /\ \E m \in 0..MaxRetries :
          calls' = [calls EXCEPT ![1] =
                      detect_process_info([@ EXCEPT !.trigger = "direct"], m)]
    /\ ncalls' = 1
    /\ UNCHANGED <<platform, status_item, port_listing, mcp_file, mcp_last, ext_vars>>

DetectProcessQueryDone ==
    /\ \E out \in ProcOuts(platform) : process_query_done(1, out)
    /\ UNCHANGED <<platform, status_item, port_listing, mcp_file, mcp_last, ncalls, ext_vars>>

DetectPortQueryDone ==
    /\ \E out \in PortOuts(platform) : port_query_done(1, out)
    /\ UNCHANGED <<platform, status_item, port_listing, mcp_file, mcp_last, ncalls, ext_vars>>

DetectResCallback ==
    /\ \E st \in StatusCodes : res_callback(1, st)
    /\ UNCHANGED <<platform, status_item, port_listing, mcp_file, mcp_last, ncalls, ext_vars>>

DetectResEnd ==
    /\ \E body \in Bodies : res_end(1, body)
    /\ UNCHANGED <<platform, status_item, port_listing, mcp_file, mcp_last, ncalls, ext_vars>>

DetectReqError == req_error(1) /\ UNCHANGED <<platform, status_item, port_listing, mcp_file, mcp_last, ncalls, ext_vars>>

DetectReqTimeout == req_timeout(1) /\ UNCHANGED <<platform, status_item, port_listing, mcp_file, mcp_last, ncalls, ext_vars>>

DetectResAborted == res_aborted(1) /\ UNCHANGED <<platform, status_item, port_listing, mcp_file, mcp_last, ncalls, ext_vars>>

DetectSleepDone == sleep_done(1) /\ UNCHANGED <<platform, status_item, port_listing, mcp_file, mcp_last, ncalls, ext_vars>>

NextDetect ==
    \/ DetectCall
    \/ DetectProcessQueryDone
    \/ DetectPortQueryDone
    \/ DetectResCallback
    \/ DetectResEnd
    \/ DetectReqError
    \/ DetectReqTimeout
    \/ DetectResAborted
    \/ DetectSleepDone

SpecDetect == InitDetect /\ [][NextDetect]_vars

(***************************************************************************)
(* The quota manager, as extension.ts uses it: init(port, token) sets what *)
(* fetch_quota connects with, start_polling and stop_polling switch the    *)
(* timer, fetch_quota (techquotas.refresh, or a tick of the timer) reads    *)
(* the port and token of the last init and changes none of this state.     *)
(***************************************************************************)
qm_init(q, c, port, token) ==
    [q EXCEPT !.port = port, !.token = token, !.inited_by = c]
qm_start_polling(q) == [q EXCEPT !.polling = TRUE]
qm_stop_polling(q) == [q EXCEPT !.polling = FALSE]

(***************************************************************************)
(* extension.ts.                                                           *)
(***************************************************************************)
\* detect_process_info(max_retries: number = 1)
DefaultMaxRetries == 1

InFlightPcs == {"get_process_info", "get_listening_ports", "test_port", "sleep"}
InFlight == {c \in CallIds : calls[c].pc \in InFlightPcs}

\* initialize_extension up to await process_finder.detect_process_info():
\* the guard, the read of the configuration, the call
initialize_extension(r, trigger, initialized, enabled, prior) ==
    LET r1 == [r EXCEPT !.trigger = trigger, !.prior = prior]
    IN  IF initialized THEN [r1 EXCEPT !.pc = "done", !.skipped = TRUE]
        ELSE detect_process_info([r1 EXCEPT !.cfg_enabled = enabled], DefaultMaxRetries)

\* initialize_extension after the await: runs as soon as the call of
\* invocation c has returned
initialize_extension_continue(c) ==
    IF calls[c].pc # "done" /\ calls'[c].pc = "done"
    THEN IF calls'[c].result.kind = "found"
         THEN /\ qm' = LET q == qm_init(qm, c, calls'[c].result.connect_port,
                                        calls'[c].result.csrf_token)
                       IN  IF calls[c].cfg_enabled THEN qm_start_polling(q) ELSE q
              /\ is_initialized' = TRUE
              /\ UNCHANGED config_enabled
         ELSE UNCHANGED ext_vars
    ELSE UNCHANGED ext_vars

\* the command without the reset of the flag
reconnect_keeps_flag(initialized) == initialized

\* the techquotas.reconnect command sets is_initialized = false
reconnect_is_initialized(initialized) == FALSE

\* activate(): the objects are constructed, the commands registered, and
\* initialize_extension() is called without await
InitExt ==
    /\ platform \in Platforms
    /\ config_enabled \in BOOLEAN
    /\ is_initialized = FALSE
    /\ qm = QmInit
    /\ status_item = NoStatusItem
    /\ port_listing = NoListing
    /\ mcp_file = NoFile
    /\ mcp_last = NoOperation
    /\ ncalls = 1
    /\ calls = [c \in CallIds |->
                  IF c = 1
                  THEN initialize_extension(IdleCall, "startup", FALSE, config_enabled, 0)
                  ELSE IdleCall]

\* the techquotas.activate command
CmdActivate ==
    /\ ncalls < MaxCalls
    /\ IF ~is_initialized
       THEN /\ calls' = [calls EXCEPT ![ncalls + 1] =
                           initialize_extension(@, "activate", is_initialized,
                                                config_enabled, qm.inited_by)]
            /\ ncalls' = ncalls + 1
       ELSE UNCHANGED <<calls, ncalls>>
    /\ UNCHANGED <<platform, status_item, port_listing, mcp_file, mcp_last, ext_vars>>

\* the techquotas.reconnect command
CmdReconnect ==
    /\ ncalls < MaxCalls
    /\ LET initialized == reconnect_is_initialized(is_initialized)
       IN  /\ is_initialized' = initialized
           /\ calls' = [calls EXCEPT ![ncalls + 1] =
                          initialize_extension(@, "reconnect", initialized,
                                               config_enabled, qm.inited_by)]
    /\ qm' = qm_stop_polling(qm)
    /\ ncalls' = ncalls + 1
    /\ UNCHANGED <<platform, status_item, port_listing, mcp_file, mcp_last, config_enabled>>

\* config_manager.on_config_change
ConfigChange ==
    /\ \E enabled \in BOOLEAN :
          /\ config_enabled' = enabled
          /\ qm' = IF enabled THEN qm_start_polling(qm) ELSE qm_stop_polling(qm)
    /\ UNCHANGED <<platform, status_item, port_listing, mcp_file, mcp_last, calls, ncalls, is_initialized>>

\* what the tools and the ports answer in SpecExt: the process is absent, or
\* runs with one command line, or was restarted with another; it listens on
\* no port or on one
ExtProcOuts(plat) ==
    IF plat = "win32"
    THEN {ProcOut("exit0", "empty", <<>>, NoItem, <<>>),
          ProcOut("exit0", "object", <<>>,
                  [ProcessId |-> 42, CommandLine |-> CmdEq(Exe, D51111, TokA)], <<>>),
          ProcOut("exit0", "object", <<>>,
                  [ProcessId |-> 7, CommandLine |-> CmdSpace(Exe, D51200, TokB)], <<>>)}
    ELSE {ProcOut("exit1", "text", <<>>, NoItem, <<>>),
          ProcOut("exit0", "text", <<PidText1 \o <<" ">> \o CmdEq(Exe, D51111, TokA)>>,
                  NoItem, <<>>),
          ProcOut("exit0", "text", <<PidText2 \o <<" ">> \o CmdSpace(Exe, D51200, TokB)>>,
                  NoItem, <<>>)}

ExtPortOuts(plat, pid) ==
    IF plat = "win32"
    THEN {PortOut("exit0", "empty", <<>>, 0, <<>>),
          PortOut("exit0", "number", <<>>, IF pid = 42 THEN 51111 ELSE 51200, <<>>)}
    ELSE {PortOut("exit1", "text", <<>>, 0, <<>>),
          PortOut("exit0", "text",
                  <<[pid |-> pid, proto |-> "TCP",
                     port |-> IF pid = 42 THEN 51111 ELSE 51200, state |-> "LISTEN"]>>,
                  0, <<>>)}

ExtProcessQueryDone ==
    /\ \E c \in CallIds : \E out \in ExtProcOuts(platform) :
          process_query_done(c, out) /\ initialize_extension_continue(c)
    /\ UNCHANGED <<platform, status_item, port_listing, mcp_file, mcp_last, ncalls>>

ExtPortQueryDone ==
    /\ \E c \in CallIds : \E out \in ExtPortOuts(platform, calls[c].info.pid) :
          port_query_done(c, out) /\ initialize_extension_continue(c)
    /\ UNCHANGED <<platform, status_item, port_listing, mcp_file, mcp_last, ncalls>>

ExtResCallback ==
    /\ \E c \in CallIds : res_callback(c, 200) /\ initialize_extension_continue(c)
    /\ UNCHANGED <<platform, status_item, port_listing, mcp_file, mcp_last, ncalls>>

ExtResEnd ==
    /\ \E c \in CallIds : res_end(c, "{}") /\ initialize_extension_continue(c)
    /\ UNCHANGED <<platform, status_item, port_listing, mcp_file, mcp_last, ncalls>>

ExtReqError ==
    /\ \E c \in CallIds : req_error(c) /\ initialize_extension_continue(c)
    /\ UNCHANGED <<platform, status_item, port_listing, mcp_file, mcp_last, ncalls>>

NextExt ==
    \/ CmdActivate
    \/ CmdReconnect
    \/ ConfigChange
    \/ ExtProcessQueryDone
    \/ ExtPortQueryDone
    \/ ExtResCallback
    \/ ExtResEnd
    \/ ExtReqError

SpecExt == InitExt /\ [][NextExt]_vars

(***************************************************************************)
(* The claims.                                                             *)
(***************************************************************************)
Last(q) == q[Len(q)]

\* the command line of the first listed process is cmd
FirstEntryIs(out, cmd) ==
    \/ out.kind = "text" /\ Len(out.lines) >= 1
         /\ out.lines[1] = PidText1 \o <<" ">> \o cmd
    \/ out.kind = "object" /\ out.obj.CommandLine = cmd
    \/ out.kind = "array" /\ Len(out.arr) >= 1 /\ out.arr[1].CommandLine = cmd

\* C1: within an attempt the validator is invoked on the candidate ports one
\* after the other in ascending order; every probe before the last answered
\* false; a positive answer ends the call with exactly that port as
\* connect_port, so no port after it is probed.
C1_ProbesAscendFirstSuccessWins ==
    \A c \in CallIds :
        LET r == calls[c]
            n == Len(r.probed)
        IN  /\ n <= Len(r.ports)
            /\ \A k \in 1..n : r.probed[k].port = r.ports[k]
            /\ \A k \in 1..(n - 1) :
                  /\ r.probed[k].port <= r.probed[k + 1].port
                  /\ ~r.probed[k].ok
            /\ (n > 0 /\ r.probed[n].ok) =>
                  /\ r.pc = "done"
                  /\ r.result.kind = "found"
                  /\ r.result.connect_port = r.probed[n].port
            /\ r.result.kind = "found" => (n > 0 /\ r.probed[n].ok)

\* only the second of three candidates validates: the call returned it and the
\* third was not probed
C1_Witness ==
    \E c \in CallIds :
        /\ calls[c].pc = "done"
        /\ calls[c].result.kind = "found"
        /\ Len(calls[c].ports) = 3
        /\ Len(calls[c].probed) = 2
        /\ calls[c].result.connect_port = calls[c].ports[2]

\* C2: auth_token is non-empty in every ProcessInfo the pipeline goes on with
\* and in every result detect_process_info returns.
C2_TokenNonEmpty ==
    \A c \in CallIds :
        /\ calls[c].info.found => calls[c].info.csrf_token # <<>>
        /\ calls[c].result.kind = "found" => calls[c].result.csrf_token # <<>>

\* the command lines of the listings that carry the ownership marker, the
\* port flag and the token flag, with the port and the token they carry
CarriedValues ==
    { [cmd |-> CmdEq(Exe, D51111, TokA), port |-> 51111, token |-> TokA],
      [cmd |-> CmdSpace(Exe, D51200, TokB), port |-> 51200, token |-> TokB] }

\* C3: when the selected command line carries port P and token T and the
\* validator answers false for every candidate before C and true for C, the
\* result is {extension_port: P, connect_port: C, auth_token: T}; so the
\* listing --extension_server_port=51111 --csrf_token=abcd1234-ef00 with the
\* candidates [51111, 51200] answering false, true gives 51111, 51200 and
\* abcd1234-ef00.
C3_ResultFields ==
    \A c \in CallIds :
        LET r == calls[c]
            n == Len(r.probed)
        IN  (r.pc = "done" /\ r.result.kind = "found") =>
              /\ \A v \in CarriedValues :
                    FirstEntryIs(r.raw_proc, v.cmd) =>
                       /\ r.result.extension_port = v.port
                       /\ r.result.csrf_token = v.token
              /\ n >= 1
              /\ \A k \in 1..(n - 1) : ~r.probed[k].ok
              /\ r.probed[n].ok
              /\ r.result.connect_port = r.ports[n]
              /\ ( /\ FirstEntryIs(r.raw_proc, CmdEq(Exe, D51111, TokA))
                   /\ r.ports = <<51111, 51200>>
                   /\ n = 2 )
                 => r.result = [kind |-> "found", extension_port |-> 51111,
                                connect_port |-> 51200, csrf_token |-> TokA]

\* the end-to-end scenario happened
C3_Witness ==
    \E c \in CallIds :
        /\ calls[c].pc = "done"
        /\ FirstEntryIs(calls[c].raw_proc, CmdEq(Exe, D51111, TokA))
        /\ calls[c].ports = <<51111, 51200>>
        /\ calls[c].probed = <<[port |-> 51111, ok |-> FALSE],
                               [port |-> 51200, ok |-> TRUE]>>
        /\ calls[c].result.connect_port = 51200
        /\ calls[c].result.extension_port = 51111

\* C4: a call in which no attempt had a matching process with a candidate
\* port returns null after exactly max_retries attempts.
C4_NotFoundAfterMaxRetries ==
    \A c \in CallIds :
        LET r == calls[c]
        IN  (r.pc = "done" /\ ~r.skipped /\ ~r.had_candidates) =>
              /\ r.result = NullResult
              /\ r.attempts = r.max_retries

\* two attempts, the last with a process that listens on no port
C4_Witness ==
    \E c \in CallIds :
        /\ calls[c].pc = "done"
        /\ ~calls[c].had_candidates
        /\ calls[c].max_retries = 2
        /\ calls[c].attempts = 2
        /\ calls[c].info.found
        /\ calls[c].ports = <<>>

\* C5: detect_process_info never rejects: whatever failed in the tools or in
\* the probes, a call that ended returned a result or null, and a call that
\* has not ended has returned nothing.
C5_NeverRejects ==
    \A c \in CallIds :
        LET r == calls[c]
        IN  /\ r.result.kind \in {"none", "null", "found"}
            /\ (r.pc = "done" /\ ~r.skipped) => r.result.kind \in {"null", "found"}
            /\ r.pc # "done" => r.result.kind = "none"

\* a call ended although the query tool could not be spawned in its last
\* attempt
C5_Witness ==
    \E c \in CallIds :
        /\ calls[c].pc = "done"
        /\ calls[c].attempts = 2
        /\ calls[c].raw_proc.exit = "error"
        /\ calls[c].result.kind = "null"

\* C6: at most one discovery is in flight per ProcessFinder at any time.
C6_SingleFlight == Cardinality(InFlight) <= 1

\* C7: every reconnect runs a fresh pipeline: the enumerator is invoked again,
\* and with the process present the parser and the port query, and with a
\* listening port the probe; what the quota manager holds was returned by the
\* invocation that handed it over, after a probe of that invocation answered
\* true for that port.
C7_ReconnectRunsFreshPipeline ==
    /\ \A c \in CallIds :
          LET r == calls[c]
          IN  r.trigger = "reconnect" =>
                /\ ~r.skipped
                /\ r.attempts >= 1
                /\ r.ran.enumerator
                /\ r.info.found => (r.ran.parser /\ r.ran.port_query)
                /\ r.ports # <<>> => r.ran.probe
                /\ (r.pc = "done" /\ r.result.kind = "found") =>
                      /\ r.ran.parser /\ r.ran.port_query /\ r.ran.probe
                      /\ r.probed # <<>>
                      /\ Last(r.probed).ok
                      /\ Last(r.probed).port = r.result.connect_port
    /\ qm.inited_by # 0 =>
          LET r == calls[qm.inited_by]
          IN  /\ r.pc = "done"
              /\ r.result.kind = "found"
              /\ qm.port = r.result.connect_port
              /\ qm.token = r.result.csrf_token
              /\ r.ran.probe
              /\ r.probed # <<>>
              /\ Last(r.probed).ok
              /\ Last(r.probed).port = qm.port

\* a reconnect after a successful discovery found the same process and port
\* again and handed them to the quota manager
C7_Witness ==
    \E c \in CallIds :
        /\ calls[c].trigger = "reconnect"
        /\ calls[c].pc = "done"
        /\ calls[c].prior # 0
        /\ calls[c].result.kind = "found"
        /\ calls[calls[c].prior].result = calls[c].result
        /\ calls[c].ran.probe
        /\ qm.inited_by = c

\* C8: after a reconnect whose discovery ended in "not found", the quota
\* manager no longer holds the port and token it held when the reconnect
\* began.
C8_ReconnectDiscardsStale ==
    \A c \in CallIds :
        ( /\ calls[c].trigger = "reconnect"
          /\ calls[c].pc = "done"
          /\ calls[c].result.kind = "null"
          /\ calls[c].prior # 0 )
        => qm.inited_by # calls[c].prior

\* C9: a probe resolves true exactly when the response ended with status 200
\* and a body that is JSON; a 200 with another body, another status, an error
\* and a timeout resolve false.
C9_TrueIffOkAndJson ==
    \A c \in CallIds :
        LET p == calls[c].last_probe
        IN  p.via # "none" =>
              /\ p.ok <=> ( /\ p.via = "end"
                            /\ p.statusCode = 200
                            /\ p.body \notin {"not json{", ""} )
              /\ calls[c].probed # <<>>
              /\ Last(calls[c].probed).ok = p.ok

\* a response with status 200 and the body not json{ resolved false
C9_Witness ==
    \E c \in CallIds :
        calls[c].last_probe =
            [via |-> "end", statusCode |-> 200, body |-> "not json{", ok |-> FALSE]

\* an event that resolves the probe of invocation c, or leads to one
ProbeProgress(c) ==
    \/ \E st \in StatusCodes : res_callback(c, st)
    \/ \E body \in Bodies : res_end(c, body)
    \/ req_error(c)
    \/ req_timeout(c)

\* C10: every probe eventually resolves: while a probe is pending, an event
\* that resolves it can still come.
C10_ProbeNeverBlocks ==
    \A c \in CallIds : calls[c].pc = "test_port" => ENABLED ProbeProgress(c)

\* no entry of the listing carries the token flag
NoTokenFlag(out) ==
    LET lacks(cmd) == ~Includes(cmd, TokenFlag) /\ ~Includes(cmd, TokenFlagUpper)
    IN  /\ \A k \in 1..Len(out.lines) : lacks(out.lines[k])
        /\ lacks(out.obj.CommandLine)
        /\ \A k \in 1..Len(out.arr) : lacks(out.arr[k].CommandLine)

\* C11: a command line without the token flag gives "no match", whatever
\* other flags it carries, on the Windows and on the POSIX path: a listing
\* in which no entry carries the token flag yields no ProcessInfo.
C11_NoTokenNoMatch ==
    \A c \in CallIds : NoTokenFlag(calls[c].raw_proc) => ~calls[c].info.found

\* C12: a command line with a valid token flag and no port flag gives a
\* ProcessInfo with extension_port 0 and the token, on the Windows and on the
\* POSIX path.
C12_NoPortGivesPortZero ==
    \A c \in CallIds :
        FirstEntryIs(calls[c].raw_proc, CmdNoPort(Exe, TokB)) =>
            /\ calls[c].info.found
            /\ calls[c].info.extension_port = 0
            /\ calls[c].info.csrf_token = TokB

(***************************************************************************)
(* SpecParse: the command-line parser on one listed process, for every     *)
(* order and syntax of the two flags.  The process listens on no port, so  *)
(* the call ends after the parse.                                          *)
(***************************************************************************)
\* a token with characters outside the hexadecimal digits
TokG == <<"7", "g", "h">>

\* the token flag before the port flag
CmdRevEq(exe, port, token) ==
    exe \o <<" ", TokenFlag, "=">> \o token \o <<" ", PortFlag, "=">> \o port
CmdRevSpace(exe, port, token) ==
    exe \o <<" ", TokenFlag, " ">> \o token \o <<" ", PortFlag, " ">> \o port

\* the port values, as written and as numbers, and the token values
ParsePorts == {[text |-> D51111, value |-> 51111], [text |-> D51200, value |-> 51200]}
ParseTokens == {TokA, TokB, TokG}

ParseCmdLines ==
    {CmdSpace(Exe, p.text, t) : p \in ParsePorts, t \in ParseTokens}
    \cup {CmdEq(Exe, p.text, t) : p \in ParsePorts, t \in ParseTokens}
    \cup {CmdRevSpace(Exe, p.text, t) : p \in ParsePorts, t \in ParseTokens}
    \cup {CmdRevEq(Exe, p.text, t) : p \in ParsePorts, t \in ParseTokens}
    \cup CmdLines

\* listings of one process
ParseProcOuts(plat) ==
    IF plat = "win32"
    THEN {ProcOut("exit0", "object", <<>>,
                  [ProcessId |-> 42, CommandLine |-> cmd], <<>>) : cmd \in ParseCmdLines}
         \cup {ProcOut("exit0", "array", <<>>, NoItem,
                       <<[ProcessId |-> 42, CommandLine |-> cmd]>>) : cmd \in ParseCmdLines}
    ELSE {ProcOut("exit0", "text", <<PidText1 \o <<" ">> \o cmd>>, NoItem, <<>>) :
             cmd \in ParseCmdLines}

\* no listening port
ParsePortOuts(plat) ==
    IF plat = "win32" THEN {PortOut("exit0", "empty", <<>>, 0, <<>>)}
    ELSE {PortOut("exit0", "text", <<>>, 0, <<>>)}

ParseCall ==
    /\ calls[1].pc = "idle"
    /\ calls' = [calls EXCEPT ![1] =
                   detect_process_info([@ EXCEPT !.trigger = "direct"],
                                       DefaultMaxRetries)]
    /\ ncalls' = 1
    /\ UNCHANGED <<platform, status_item, port_listing, mcp_file, mcp_last, ext_vars>>

ParseProcessQueryDone ==
    /\ \E out \in ParseProcOuts(platform) : process_query_done(1, out)
    /\ UNCHANGED <<platform, status_item, port_listing, mcp_file, mcp_last, ncalls, ext_vars>>

ParsePortQueryDone ==
    /\ \E out \in ParsePortOuts(platform) : port_query_done(1, out)
    /\ UNCHANGED <<platform, status_item, port_listing, mcp_file, mcp_last, ncalls, ext_vars>>

NextParse ==
    \/ ParseCall
    \/ ParseProcessQueryDone
    \/ ParsePortQueryDone

SpecParse == InitDetect /\ [][NextParse]_vars

\* the parse of one listed process with command line cmd
ParseOf(plat, cmd) ==
    IF plat = "win32" THEN parse_windows([ProcessId |-> 42, CommandLine |-> cmd])
    ELSE parse_unix(PidText1 \o <<" ">> \o cmd)

\* the command lines that carry port p and token t in another order or
\* syntax than --extension_server_port p --csrf_token t
Variants(p, t) ==
    {CmdEq(Exe, p, t), CmdRevSpace(Exe, p, t), CmdRevEq(Exe, p, t)}

\* C13: for every port value and token value, a command line with the two
\* flags in reversed order, or with --flag=value instead of --flag value,
\* gives the same extension_port and auth_token as the canonical form; for
\* the hexadecimal tokens these are the port and the token as written.
C13_OrderAndSyntaxIndependent ==
    \A c \in CallIds : \A p \in ParsePorts : \A t \in ParseTokens :
        \A cmd \in Variants(p.text, t) \cup {CmdSpace(Exe, p.text, t)} :
            FirstEntryIs(calls[c].raw_proc, cmd) =>
                LET canonical == ParseOf(platform, CmdSpace(Exe, p.text, t))
                IN  /\ calls[c].info.found = canonical.found
                    /\ calls[c].info.extension_port = canonical.extension_port
                    /\ calls[c].info.csrf_token = canonical.csrf_token
                    /\ t \in {TokA, TokB} =>
                          /\ calls[c].info.found
                          /\ calls[c].info.extension_port = p.value
                          /\ calls[c].info.csrf_token = t

\* the reversed order with = was parsed to the port and the token
C13_Witness ==
    \E c \in CallIds :
        /\ FirstEntryIs(calls[c].raw_proc, CmdRevEq(Exe, D51200, TokA))
        /\ calls[c].info.found
        /\ calls[c].info.extension_port = 51200
        /\ calls[c].info.csrf_token = TokA

\* C14: the list the port enumerator returns is sorted ascending and has no
\* duplicates, whatever the order and multiplicity of the raw reports, on the
\* Windows and on the POSIX path.
C14_SortedNoDuplicates ==
    \A c \in CallIds :
        \A k \in 1..(Len(calls[c].ports) - 1) :
            calls[c].ports[k] < calls[c].ports[k + 1]

\* the listed processes: their pids and command lines
Entries(out) ==
    IF out.kind = "text"
    THEN {[pid |-> parseInt(FirstPart(out.lines[k])), cmd |-> RestOfLine(out.lines[k])] :
             k \in 1..Len(out.lines)}
    ELSE IF out.kind = "object"
    THEN {[pid |-> out.obj.ProcessId, cmd |-> out.obj.CommandLine]}
    ELSE {[pid |-> out.arr[k].ProcessId, cmd |-> out.arr[k].CommandLine] :
             k \in 1..Len(out.arr)}

\* C15: an entry whose command line does not carry the ownership marker is
\* discarded on the Windows and on the POSIX path: every ProcessInfo is built
\* from a listed process whose command line carries the marker.
C15_OnlyOwnedProcesses ==
    \A c \in CallIds :
        calls[c].info.found =>
            \E e \in Entries(calls[c].raw_proc) :
                /\ e.pid = calls[c].info.pid
                /\ is_antigravity(e.cmd)

\* the process query failed: the tool could not be spawned, exited non-zero
\* without output, or printed what JSON.parse rejects
ProcQueryFailed(out) ==
    \/ out.exit = "error"
    \/ out.exit = "exit1" /\ (out.kind = "empty" \/ (out.kind = "text" /\ out.lines = <<>>))
    \/ out.kind = "badjson"

\* the attempt of r ended as one that found nothing: the call waits for the
\* retry while budget remains, and has returned null when it does not
EndedEmpty(r) ==
    /\ r.pc \in {"sleep", "done"}
    /\ r.probed = <<>>
    /\ r.pc = "sleep" => r.attempts < r.max_retries
    /\ r.pc = "done" => (r.result = NullResult /\ r.attempts = r.max_retries)

\* C16: a failure of a query tool (spawn error, non-zero exit without output,
\* unparsable output) stays in the step that invoked it: the process
\* enumerator then yields "no process", the port enumerator the empty list,
\* and the attempt ends in RetryOrFail as for an empty result.
C16_ToolFailureIsEmptyResult ==
    \A c \in CallIds :
        LET r == calls[c]
        IN  /\ ProcQueryFailed(r.raw_proc) => (~r.info.found /\ EndedEmpty(r))
            /\ r.ports_failed => (r.info.found /\ r.ports = <<>> /\ EndedEmpty(r))

\* the port query failed in the first of two attempts and the call waits for
\* the retry
C16_Witness ==
    \E c \in CallIds :
        /\ calls[c].ports_failed
        /\ calls[c].pc = "sleep"
        /\ calls[c].attempts = 1
        /\ calls[c].max_retries = 2

(***************************************************************************)
(* SpecCalls: two calls of detect_process_info(max_retries) on the one     *)
(* ProcessFinder, the second after the first returned, while the process   *)
(* comes, goes and is restarted between the attempts.                      *)
(***************************************************************************)
SeqCall ==
    /\ \E c \in {1, 2} :
          /\ calls[c].pc = "idle"
          /\ c = 2 => calls[1].pc = "done"
          /\ \E m \in (-1)..MaxRetries :
                calls' = [calls EXCEPT ![c] =
                            detect_process_info([@ EXCEPT !.trigger = "direct"], m)]
          /\ ncalls' = c
    /\ UNCHANGED <<platform, status_item, port_listing, mcp_file, mcp_last, ext_vars>>

SeqProcessQueryDone ==
    /\ \E c \in {1, 2} : \E out \in ExtProcOuts(platform) : process_query_done(c, out)
    /\ UNCHANGED <<platform, status_item, port_listing, mcp_file, mcp_last, ncalls, ext_vars>>

SeqPortQueryDone ==
    /\ \E c \in {1, 2} : \E out \in ExtPortOuts(platform, calls[c].info.pid) :
          port_query_done(c, out)
    /\ UNCHANGED <<platform, status_item, port_listing, mcp_file, mcp_last, ncalls, ext_vars>>

SeqResCallback ==
    /\ \E c \in {1, 2} : res_callback(c, 200)
    /\ UNCHANGED <<platform, status_item, port_listing, mcp_file, mcp_last, ncalls, ext_vars>>

SeqResEnd ==
    /\ \E c \in {1, 2} : res_end(c, "{}")
    /\ UNCHANGED <<platform, status_item, port_listing, mcp_file, mcp_last, ncalls, ext_vars>>

SeqReqError ==
    /\ \E c \in {1, 2} : req_error(c)
    /\ UNCHANGED <<platform, status_item, port_listing, mcp_file, mcp_last, ncalls, ext_vars>>

SeqSleepDone ==
    /\ \E c \in {1, 2} : sleep_done(c)
    /\ UNCHANGED <<platform, status_item, port_listing, mcp_file, mcp_last, ncalls, ext_vars>>

NextCalls ==
    \/ SeqCall
    \/ SeqProcessQueryDone
    \/ SeqPortQueryDone
    \/ SeqResCallback
    \/ SeqResEnd
    \/ SeqReqError
    \/ SeqSleepDone

SpecCalls == InitDetect /\ [][NextCalls]_vars

\* C17: nothing is cached across attempts or calls: every attempt starts with
\* a new process query and without info or ports; the info a call works with
\* is the parse of the listing of its current attempt; and a returned result
\* has the token and extension_port of that info and a connect_port among the
\* ports enumerated in that attempt for the pid of that info.
C17_NothingCached ==
    \A c \in CallIds :
        LET r == calls[c]
        IN  /\ r.pc = "get_process_info" =>
                  /\ r.info_attempt = 0 /\ r.ports_attempt = 0
                  /\ r.raw_proc = NoProcOut
                  /\ ~r.info.found /\ r.ports = <<>> /\ r.probed = <<>>
            /\ r.pc \in {"get_listening_ports", "test_port", "sleep"} =>
                  r.info_attempt = r.attempts
            /\ r.pc = "test_port" => r.ports_attempt = r.attempts
            /\ r.raw_proc # NoProcOut => r.info = get_process_info(platform, r.raw_proc)
            /\ r.result.kind = "found" =>
                  /\ r.info_attempt = r.attempts
                  /\ r.ports_attempt = r.attempts
                  /\ r.info.found
                  /\ r.result.csrf_token = r.info.csrf_token
                  /\ r.result.extension_port = r.info.extension_port
                  /\ \E k \in 1..Len(r.ports) : r.ports[k] = r.result.connect_port
                  /\ r.result.connect_port = IF r.info.pid = 42 THEN 51111 ELSE 51200

\* after a call that found the first process, a second call saw that process
\* without a working port in its first attempt and the restarted process in
\* its second, and returned the values of the restarted one
C17_Witness ==
    /\ calls[1].result.kind = "found"
    /\ calls[1].result.csrf_token = TokA
    /\ calls[2].result.kind = "found"
    /\ calls[2].attempts = 2
    /\ calls[2].info.pid = 7
    /\ calls[2].result.csrf_token = TokB
    /\ calls[2].result.connect_port = 51200

\* the positions of a call inside an attempt
AttemptPcs == {"get_process_info", "get_listening_ports", "test_port"}

\* what a step may do to invocation c
RetryOrFailStep(c) ==
    LET r == calls[c]
        n == calls'[c]
    IN  \* Success and Failed are terminal
        /\ r.pc = "done" => n = r
        \* the delay ends in a restart at Start
        /\ (r.pc = "sleep" /\ n # r) =>
              (n.pc = "get_process_info" /\ n.attempts = r.attempts + 1)
        \* an attempt after the first starts only out of the delay
        /\ (n.attempts # r.attempts /\ r.attempts >= 1) => r.pc = "sleep"
        \* a failed attempt: the delay if and only if budget remains,
        \* otherwise Failed
        /\ (r.pc \in AttemptPcs /\ n.pc \notin AttemptPcs /\ n.result.kind # "found") =>
              /\ n.pc = "sleep" <=> r.attempts < r.max_retries
              /\ n.pc = "done" <=> r.attempts >= r.max_retries
              /\ n.pc = "done" => n.result = NullResult
        \* a successful attempt ends the call at once
        /\ n.result.kind = "found" => n.pc = "done"

\* C18: RetryOrFail: after a failed attempt detect_process_info waits the
\* delay and restarts at Start if and only if retry budget remains, and
\* returns null when it is exhausted; Success and Failed are terminal: after
\* them the call makes no attempt, enumeration or probe.
C18_RetryOrFail ==
    /\ [](\A c \in CallIds :
             /\ calls[c].pc = "sleep" => calls[c].attempts < calls[c].max_retries
             /\ calls[c].attempts <= calls[c].max_retries
             /\ calls[c].result.kind = "null" => calls[c].attempts = calls[c].max_retries)
    /\ [][\A c \in CallIds : RetryOrFailStep(c)]_vars

\* a call succeeded in its second attempt, after the delay
C18_Witness ==
    \E c \in CallIds :
        /\ calls[c].pc = "done"
        /\ calls[c].result.kind = "found"
        /\ calls[c].attempts = 2
        /\ calls[c].i = 1

\* C19: on Windows the output of the process query is normalized to a list:
\* a single JSON object gives the same ProcessInfo, or the same "no match",
\* as the one-element list with that object.
C19_ObjectAsOneElementList ==
    \A c \in CallIds :
        LET r == calls[c]
        IN  platform = "win32" =>
              /\ r.raw_proc.kind = "object" =>
                    r.info = get_process_info_windows(
                                 ProcOut(r.raw_proc.exit, "array", <<>>, NoItem,
                                         <<r.raw_proc.obj>>))
              /\ (r.raw_proc.kind = "array" /\ Len(r.raw_proc.arr) = 1) =>
                    r.info = get_process_info_windows(
                                 ProcOut(r.raw_proc.exit, "object", <<>>,
                                         r.raw_proc.arr[1], <<>>))
              /\ \A p \in ParsePorts :
                    ( /\ r.raw_proc.kind \in {"object", "array"}
                      /\ FirstEntryIs(r.raw_proc, CmdEq(Exe, p.text, TokA)) )
                    => r.info = ParsedInfo(42, p.value, TokA)

\* a single object was parsed to a ProcessInfo
C19_Witness ==
    \E c \in CallIds :
        /\ platform = "win32"
        /\ calls[c].raw_proc.kind = "object"
        /\ calls[c].raw_proc.obj.CommandLine = CmdEq(Exe, D51111, TokA)
        /\ calls[c].info = ParsedInfo(42, 51111, TokA)

(***************************************************************************)
(* SpecStatus: the status bar item of a model group on a quota update      *)
(* (ui/status_bar.ts).                                                     *)
(***************************************************************************)
Red == "#f14c4c"
Yellow == "#dcdcaa"
Green == "#4ec9b0"

\* the remaining percentages
Percentages == 0..100

\* get_status_color_hex
get_status_color_hex(percentage) ==
    IF percentage <= 20 THEN Red
    ELSE IF percentage <= 50 THEN Yellow
    ELSE Green

\* get_status_color_hex of the split-item version
get_status_color_hex_split(percentage) ==
    IF percentage <= 20 THEN Red
    ELSE IF percentage <= 50 THEN Yellow
    ELSE Green

\* build_group_tooltip: the text after "Status:"
build_group_tooltip_status(is_exhausted, pct) ==
    IF is_exhausted THEN "Exhausted"
    ELSE IF pct < 20 THEN "Low"
    ELSE IF pct < 50 THEN "Warning"
    ELSE "Available"

\* build_group_tooltip of the split-item version
build_group_tooltip_status_split(is_exhausted, pct) ==
    IF is_exhausted THEN "Exhausted"
    ELSE IF pct < 20 THEN "Low"
    ELSE IF pct < 50 THEN "Warning"
    ELSE "Available"

InitStatus == InitDetect

\* StatusBarManager.update: item.color = get_status_color_hex(pct),
\* item.tooltip = build_group_tooltip(group)
StatusBarUpdate ==
    /\ \E pct \in Percentages : \E is_exhausted \in BOOLEAN :
          status_item' = [shown |-> TRUE, pct |-> pct, is_exhausted |-> is_exhausted,
                          color |-> get_status_color_hex(pct),
                          split_color |-> get_status_color_hex_split(pct),
                          status |-> build_group_tooltip_status(is_exhausted, pct),
                          split_status |->
                              build_group_tooltip_status_split(is_exhausted, pct)]
    /\ UNCHANGED <<platform, calls, ncalls, is_initialized, config_enabled, qm,
                   port_listing, mcp_file, mcp_last>>

NextStatus == StatusBarUpdate

SpecStatus == InitStatus /\ [][NextStatus]_vars

\* C20: for every remaining percentage p in 0..100 the status colour of a
\* model group is green when p > 50, yellow when 20 <= p <= 50 and red when
\* p < 20.
C20_ColourBands ==
    status_item.shown =>
        LET p == status_item.pct
            band == IF p > 50 THEN Green ELSE IF p >= 20 THEN Yellow ELSE Red
        IN  /\ status_item.color = band
            /\ status_item.split_color = band

\* C21: techquotas.enabled is a master switch: whenever the current setting
\* is false, polling is not running, for every interleaving of a
\* configuration change with an initialization in flight.
C21_EnabledMasterSwitch == ~config_enabled => ~qm.polling

\* C22: within an attempt the steps run in pipeline order: the port
\* enumerator is invoked only after a ProcessInfo was produced in the same
\* attempt, and with its pid; the validator is invoked only with ports the
\* port enumerator returned in that attempt, in their order, and with the
\* token of that ProcessInfo; with an empty port list it is not invoked.
C22_PipelineOrder ==
    \A c \in CallIds :
        LET r == calls[c]
        IN  /\ ~r.info.found =>
                  (r.queried_pid = 0 /\ r.pc # "get_listening_ports"
                   /\ r.ports = <<>> /\ r.probed = <<>>)
            /\ (r.pc = "get_listening_ports" \/ r.queried_pid # 0) =>
                  /\ r.info.found
                  /\ r.info_attempt = r.attempts
                  /\ r.queried_pid = r.info.pid
            /\ r.ports_attempt # 0 => r.queried_pid = r.info.pid
            /\ (platform # "win32" /\ r.info.pid = 7) =>
                  \A k \in 1..Len(r.ports) : r.ports[k] # 42100
            /\ (r.pc = "test_port" \/ r.probed # <<>>) =>
                  /\ r.ports # <<>>
                  /\ r.ports_attempt = r.attempts
                  /\ r.probe_token = r.info.csrf_token
                  /\ Len(r.probed) <= Len(r.ports)
                  /\ \A k \in 1..Len(r.probed) : r.probed[k].port = r.ports[k]
            /\ r.pc = "test_port" => r.idx = Len(r.probed) + 1
            /\ r.ports = <<>> => (r.pc # "test_port" /\ r.probed = <<>>)

\* in its second attempt a call probes the second port of the second process
C22_Witness ==
    \E c \in CallIds :
        /\ calls[c].pc = "test_port"
        /\ calls[c].attempts = 2
        /\ calls[c].queried_pid = 7
        /\ calls[c].idx = 2
        /\ calls[c].probe_token = TokB

\* C23: every auth_token a parse returns consists only of hexadecimal
\* digits and hyphens, in either case, on the Windows path and on the POSIX
\* path, so that the two paths extract the same token from the same command
\* line.
C23_TokenIsHexOnBothPaths ==
    \A c \in CallIds :
        /\ calls[c].info.found =>
              \A k \in 1..Len(calls[c].info.csrf_token) :
                  calls[c].info.csrf_token[k] \in WinTokenChars
        /\ \A cmd \in ParseCmdLines :
              FirstEntryIs(calls[c].raw_proc, cmd) =>
                  ParseOf("win32", cmd).csrf_token
                      = ParseOf("linux", cmd).csrf_token

(***************************************************************************)
(* SpecPorts: the port query of one call on one listed process, with the   *)
(* listing of the tool kept in port_listing.                               *)
(***************************************************************************)
\* listings of one process, with pid 42 or with pid 7
PortsProcOuts(plat) ==
    IF plat = "win32"
    THEN {ProcOut("exit0", "object", <<>>,
                  [ProcessId |-> p, CommandLine |-> CmdSpace(Exe, D51111, TokA)],
                  <<>>) : p \in Pids}
    ELSE {ProcOut("exit0", "text", <<p \o <<" ">> \o CmdSpace(Exe, D51111, TokA)>>,
                  NoItem, <<>>) : p \in {PidText1, PidText2}}

\* what lsof can do: fail to start, exit with or without lines
PortsPortOuts(plat) ==
    IF plat = "win32" THEN WinPortOuts
    ELSE UnixPortOuts
         \cup {PortOut("exit1", "text", ls, 0, <<>>) :
                  ls \in SeqsUpTo(LsofLines, MaxLines) \ {<<>>}}

PortsProcessQueryDone ==
    /\ \E out \in PortsProcOuts(platform) : process_query_done(1, out)
    /\ UNCHANGED <<platform, status_item, port_listing, mcp_file, mcp_last, ncalls, ext_vars>>

PortsPortQueryDone ==
    /\ \E out \in PortsPortOuts(platform) :
          /\ port_query_done(1, out)
          /\ port_listing' = out
    /\ UNCHANGED <<platform, status_item, mcp_file, mcp_last, ncalls, ext_vars>>

NextPorts ==
    \/ ParseCall
    \/ PortsProcessQueryDone
    \/ PortsPortQueryDone

SpecPorts == InitDetect /\ [][NextPorts]_vars

\* C24: on POSIX every port the port enumerator returns is taken from a line
\* of the listing that references the queried pid and is in LISTEN state, so
\* a port of another pid or of a socket in another state is not in the
\* result; when the listing tool cannot be started or fails, the result is
\* the empty list.
C24_OnlyOwnListeningPorts ==
    \A c \in CallIds :
        LET r == calls[c]
        IN  (platform # "win32" /\ r.ports_attempt # 0) =>
               /\ \A k \in 1..Len(r.ports) :
                     \E j \in 1..Len(port_listing.lines) :
                        /\ port_listing.lines[j].port = r.ports[k]
                        /\ port_listing.lines[j].pid = r.queried_pid
                        /\ port_listing.lines[j].state = "LISTEN"
               /\ (\/ port_listing.exit = "error"
                   \/ port_listing.exit = "exit1" /\ port_listing.lines = <<>>)
                     => r.ports = <<>>

\* a listing with a line of another pid and a line of a socket that does
\* not listen, of which one port is returned
C24_Witness ==
    \E c \in CallIds :
        /\ platform # "win32"
        /\ calls[c].ports_attempt # 0
        /\ Len(calls[c].ports) = 1
        /\ Len(port_listing.lines) = 3
        /\ \E j \in 1..3 : /\ port_listing.lines[j].pid # calls[c].queried_pid
                           /\ port_listing.lines[j].state = "LISTEN"
        /\ \E j \in 1..3 : /\ port_listing.lines[j].pid = calls[c].queried_pid
                           /\ port_listing.lines[j].state # "LISTEN"

\* the command lines of the entries that pass the enumerator's filter, in
\* the order of the listing
PassingEntries(plat, out) ==
    IF plat = "win32"
    THEN IF out.kind \in {"object", "array"}
         THEN LET kept == first_antigravity(normalize_data(out))
              IN  [k \in 1..Len(kept) |-> kept[k].CommandLine]
         ELSE <<>>
    ELSE flagged_lines(out.lines)

\* C25: only the first entry that passes the enumerator's filter is
\* considered in an attempt: when that entry lacks a token the attempt has
\* no ProcessInfo and returns no result, whatever the later entries of the
\* same listing carry.
C25_FirstEntryOnly ==
    \A c \in CallIds :
        LET r == calls[c]
            passing == PassingEntries(platform, r.raw_proc)
            lacks(cmd) == ~Includes(cmd, TokenFlag) /\ ~Includes(cmd, TokenFlagUpper)
        IN  (/\ r.attempts > 0 /\ r.info_attempt = r.attempts
             /\ passing # <<>> /\ lacks(passing[1]))
               => (~r.info.found /\ r.result.kind # "found")

\* C26: a call with max_retries <= 0 returns null without invoking the
\* process enumerator, the port enumerator or the validator; a call with
\* max_retries >= 1 invokes the process enumerator at least once and at most
\* max_retries times.
C26_RetryBudget ==
    \A c \in CallIds :
        LET r == calls[c]
        IN  r.pc # "idle" =>
               /\ r.max_retries <= 0 =>
                     /\ r.pc = "done" /\ r.result = NullResult
                     /\ r.attempts = 0 /\ r.ran = NoneRan
                     /\ r.raw_proc = NoProcOut /\ r.probed = <<>>
               /\ r.max_retries >= 1 =>
                     /\ r.ran.enumerator
                     /\ 1 <= r.attempts /\ r.attempts <= r.max_retries

\* a call with a negative max_retries has returned, and a call with
\* max_retries = 2 has used both attempts
C26_Witness ==
    /\ calls[1].pc = "done" /\ calls[1].max_retries < 0
    /\ calls[2].pc = "done" /\ calls[2].max_retries = 2
    /\ calls[2].attempts = 2

\* C27: when initializations overlapped and all of them have completed, the
\* quota manager holds the port and token found by the most recently
\* started discovery: a discovery started earlier that finished later has
\* not overwritten them.
C27_NewestDiscoveryWins ==
    \A c \in CallIds :
        ( /\ InFlight = {}
          /\ c <= ncalls /\ ~calls[c].skipped
          /\ calls[c].result.kind = "found"
          /\ \A d \in CallIds : (c < d /\ d <= ncalls) => calls[d].skipped )
        => /\ qm.port = calls[c].result.connect_port
           /\ qm.token = calls[c].result.csrf_token

\* C28: start_polling is called only after init was called with the result
\* of a discovery that succeeded: in no state does the quota manager poll
\* while it was never initialised.
C28_PollingOnlyAfterInit == qm.polling => qm.inited_by # 0

\* C29: for every remaining percentage p in 0..100 of a group that is not
\* exhausted, the status text of the tooltip agrees with the colour band:
\* 'Low' exactly when the colour is red, 'Warning' exactly when it is
\* yellow, 'Available' exactly when it is green.
C29_StatusTextAgreesWithColour ==
    (status_item.shown /\ ~status_item.is_exhausted) =>
        /\ status_item.status = "Low" <=> status_item.color = Red
        /\ status_item.status = "Warning" <=> status_item.color = Yellow
        /\ status_item.status = "Available" <=> status_item.color = Green
        /\ status_item.split_status = "Low" <=> status_item.split_color = Red
        /\ status_item.split_status = "Warning" <=> status_item.split_color = Yellow
        /\ status_item.split_status = "Available" <=> status_item.split_color = Green

(***************************************************************************)
(* SpecMcp: the MCP manager on mcp_config.json.  A key of mcpServers is a  *)
(* string, written as the sequence of its parts, so that the disabled key  *)
(* of an id is the marker followed by the id; mcpServers is the sequence   *)
(* of its properties in insertion order; a config is named by a string.    *)
(* Every operation runs to completion before the next.                     *)
(***************************************************************************)
MaxOps == 3

DisabledMarker == "_disabled_"

\* `_disabled_${server_id}`
disabledKey(server_id) == <<DisabledMarker>> \o server_id

\* key in json.mcpServers, json.mcpServers[key]
has_key(servers, key) == \E k \in 1..Len(servers) : servers[k].key = key
get_key(servers, key) ==
    servers[CHOOSE k \in 1..Len(servers) : servers[k].key = key].config

\* delete json.mcpServers[key]
delete_key(servers, key) ==
    LET other(e) == e.key # key IN SelectSeq(servers, other)

\* json.mcpServers[key] = config
set_key(servers, key, config) ==
    IF has_key(servers, key)
    THEN [k \in 1..Len(servers) |->
             IF servers[k].key = key THEN [key |-> key, config |-> config]
             ELSE servers[k]]
    ELSE Append(servers, [key |-> key, config |-> config])

\* write_config: the file holds JSON.stringify(config)
write_config(servers) == [state |-> "ok", mcpServers |-> servers]

\* toggle_server(server_id, enabled): the file afterwards and the value
\* returned; a file that is missing or is not JSON makes the read throw
toggle_server(file, server_id, enabled) ==
    IF file.state # "ok" THEN [file |-> file, returned |-> FALSE]
    ELSE LET servers == file.mcpServers
             enabledKey == server_id
         IN  IF has_key(servers, enabledKey)
             THEN LET configToMove == get_key(servers, enabledKey)
                  IN  [file |-> write_config(
                                   IF ~enabled
                                   THEN set_key(delete_key(servers, enabledKey),
                                                disabledKey(server_id), configToMove)
                                   ELSE servers),
                       returned |-> TRUE]
             ELSE IF has_key(servers, disabledKey(server_id))
             THEN LET configToMove == get_key(servers, disabledKey(server_id))
                  IN  [file |-> write_config(
                                   IF enabled
                                   THEN set_key(delete_key(servers, disabledKey(server_id)),
                                                enabledKey, configToMove)
                                   ELSE servers),
                       returned |-> TRUE]
             ELSE [file |-> file, returned |-> FALSE]

\* install_server(server_id, config)
install_server(file, server_id, config) ==
    IF file.state # "ok" THEN [file |-> file, returned |-> FALSE]
    ELSE [file |-> write_config(
                      set_key(delete_key(delete_key(file.mcpServers, server_id),
                                         disabledKey(server_id)),
                              server_id, config)),
          returned |-> TRUE]

\* get_servers: a key that starts with the marker is shown as the rest of
\* the key, disabled; any other key as itself, enabled
RECURSIVE normalize_servers(_, _)
normalize_servers(servers, normalized) ==
    IF servers = <<>> THEN normalized
    ELSE LET e == Head(servers)
         IN  normalize_servers(Tail(servers),
                IF e.key # <<>> /\ e.key[1] = DisabledMarker
                THEN set_key(normalized, Tail(e.key),
                             [config |-> e.config, disabled |-> TRUE])
                ELSE set_key(normalized, e.key,
                             [config |-> e.config, disabled |-> FALSE]))

get_servers(file) ==
    IF file.state # "ok" THEN <<>> ELSE normalize_servers(file.mcpServers, <<>>)

\* the ids the panel hands over, and the configs
ServerIds == {<<"x">>, <<"y">>, <<DisabledMarker, "x">>}
McpConfigs == {"c1", "c2"}

\* files in which no id is present under both of its keys
McpInitialFiles ==
    {NoFile,
     [state |-> "badjson", mcpServers |-> <<>>],
     write_config(<<>>),
     write_config(<<[key |-> <<"x">>, config |-> "c1"]>>),
     write_config(<<[key |-> disabledKey(<<"x">>), config |-> "c1"]>>),
     write_config(<<[key |-> <<"x">>, config |-> "c1"],
                    [key |-> disabledKey(<<"y">>), config |-> "c2"]>>)}

InitMcp ==
    /\ platform \in Platforms
    /\ calls = [c \in CallIds |-> IdleCall]
    /\ ncalls = 0
    /\ is_initialized = FALSE
    /\ config_enabled = TRUE
    /\ qm = QmInit
    /\ status_item = NoStatusItem
    /\ port_listing = NoListing
    /\ mcp_file \in McpInitialFiles
    /\ mcp_last = NoOperation

\* the operation op(server_id, enabled) has returned res
mcp_returns(op, server_id, enabled, res) ==
    /\ mcp_file' = res.file
    /\ mcp_last' = [op |-> op, server_id |-> server_id, enabled |-> enabled,
                    returned |-> res.returned, before |-> mcp_file,
                    prev_op |-> mcp_last.op, prev_id |-> mcp_last.server_id,
                    prev_enabled |-> mcp_last.enabled,
                    prev_before |-> mcp_last.before, n |-> mcp_last.n + 1]

McpToggleServer ==
    /\ mcp_last.n < MaxOps
    /\ \E server_id \in ServerIds : \E enabled \in BOOLEAN :
          mcp_returns("toggle", server_id, enabled,
                      toggle_server(mcp_file, server_id, enabled))
    /\ UNCHANGED <<platform, calls, ncalls, is_initialized, config_enabled, qm,
                   status_item, port_listing>>

McpInstallServer ==
    /\ mcp_last.n < MaxOps
    /\ \E server_id \in ServerIds : \E config \in McpConfigs :
          mcp_returns("install", server_id, FALSE,
                      install_server(mcp_file, server_id, config))
    /\ UNCHANGED <<platform, calls, ncalls, is_initialized, config_enabled, qm,
                   status_item, port_listing>>

NextMcp ==
    \/ McpToggleServer
    \/ McpInstallServer

SpecMcp == InitMcp /\ [][NextMcp]_vars

\* C30: starting from a file in which no id is present under both of its
\* keys, no sequence of toggle_server and install_server calls gives a file
\* that holds key and disabled key of one id, so get_servers shows every
\* key as a server of its own; toggle_server(id, false) followed by
\* toggle_server(id, true) on an enabled id gives back the keys and configs
\* the file had; toggle_server on an id that has neither key returns false
\* and leaves the file as it was.
C30_McpKeysConsistent ==
    LET servers == mcp_file.mcpServers
        entries(file) == {file.mcpServers[k] : k \in 1..Len(file.mcpServers)}
        unknown(file, id) == /\ ~has_key(file.mcpServers, id)
                             /\ ~has_key(file.mcpServers, disabledKey(id))
    IN  /\ \A k \in 1..Len(servers) : ~has_key(servers, disabledKey(servers[k].key))
        /\ Len(get_servers(mcp_file)) = Len(servers)
        /\ ( /\ mcp_last.op = "toggle" /\ mcp_last.enabled
             /\ mcp_last.prev_op = "toggle" /\ ~mcp_last.prev_enabled
             /\ mcp_last.prev_id = mcp_last.server_id
             /\ has_key(mcp_last.prev_before.mcpServers, mcp_last.server_id) )
           => entries(mcp_file) = entries(mcp_last.prev_before)
        /\ (mcp_last.op = "toggle" /\ unknown(mcp_last.before, mcp_last.server_id))
           => (~mcp_last.returned /\ mcp_file = mcp_last.before)
=============================================================================
